---- MODULE Spec2Model ----
(***************************************************************************)
(* Model of the partition placement engine of kafka-partition-visualizer   *)
(* (internal/placement/placement.go, CalculatePlacement and findBroker)    *)
(* over the data types of internal/config.                                 *)
(*                                                                         *)
(* One run of the state machine is one call of CalculatePlacement: the     *)
(* request cfg is drawn in Init, BuildTopology is the code before the      *)
(* partition loop, and the partition loop is stepped one candidate broker  *)
(* at a time.  The two sources of nondeterminism of the code are kept: the *)
(* iteration order of Go maps (which fixes allBrokerIDs) and rand.Shuffle. *)
(***************************************************************************)
EXTENDS Integers, Sequences, FiniteSets, TLC

\* ---------------------------------------------------------------- bounds
MaxPartitions == 4
MaxRF == 4
MaxISR == 3
MaxBrokers == 3
MaxDCs == 3
MaxTotalBrokers == 4
MaxEdits == 1
MaxTyped == 2

\* ---------------------------------------------------- types of config.go
SingleCluster == "SingleCluster"
MRC == "MRC"

Leader == "Leader"
Follower == "Follower"
Observer == "Observer"

ReplicaInfo(partitionID, role) == [PartitionID |-> partitionID, Role |-> role]

BrokerInfo(brokerID) == [ID |-> brokerID, Replicas |-> <<>>]

DCInfo(dcID, brokers) == [ID |-> dcID, Brokers |-> brokers]

VARIABLES
    cfg,                \* the request
    pc,                 \* position in CalculatePlacement
    dcs,                \* map DC ID -> DCInfo
    totalBrokers,
    mrcRecommendation,
    allBrokerIDs,       \* 1-based sequence of the Go slice
    p,                  \* partition loop index, 0-based
    shuffledBrokerIDs,  \* brokersToTry
    i,                  \* position of the running pass in brokersToTry
    assignedBrokerIDs,
    assignedDCs,
    replicasPlaced,
    numFollowers,
    numObservers,
    impl,               \* the caller: a front end, or a direct call
    m,                  \* the Bubble Tea model of the front end
    msg,                \* the message of the last Update call
    cmd,                \* the command returned by the last Update call
    edits               \* text changes made in the open form since it showed an error

\* The state of the front end.
ui == <<impl, m, msg, cmd, edits>>

vars == <<cfg, pc, dcs, totalBrokers, mrcRecommendation, allBrokerIDs, p,
          shuffledBrokerIDs, i, assignedBrokerIDs, assignedDCs,
          replicasPlaced, numFollowers, numObservers, ui>>

locals == <<shuffledBrokerIDs, i, assignedBrokerIDs, assignedDCs,
            replicasPlaced, numFollowers, numObservers>>

\* ------------------------------------------------------------- utilities
RECURSIVE Perms(_)
Perms(S) ==
    IF S = {} THEN {<<>>}
    ELSE UNION {{<<x>> \o s : s \in Perms(S \ {x})} : x \in S}

Range(s) == {s[k] : k \in DOMAIN s}

\* Variant: the single-cluster override of numDCs is missing.
NumDCsOf_NotForced(c) == c.NumDCs

\* ------------------------------------------------ topology construction
\* numDCs: cfg.NumDCs, forced to 1 for a single cluster.
NumDCsOf(c) == IF c.ClusterType = SingleCluster THEN 1 ELSE c.NumDCs

\* The requests a caller can hand to the engine; the engine does not validate.
PlacementConfig ==
    { c \in [ClusterType : {SingleCluster, MRC},
             NumPartitions : 0..MaxPartitions,
             ReplicationFactor : 0..MaxRF,
             MinInSyncReplicas : 0..MaxISR,
             NumBrokers : 0..MaxBrokers,
             NumDCs : 0..MaxDCs] :
        c.NumBrokers * NumDCsOf(c) <= MaxTotalBrokers }

\* The inner loop of the initialisation: brokers of one DC, IDs taken from
\* the running brokerIDCounter.
RECURSIVE AddBrokers(_, _, _, _)
AddBrokers(c, brokerIdx, counter, brokers) ==
    IF brokerIdx >= c.NumBrokers THEN [brokers |-> brokers, counter |-> counter]
    ELSE IF c.ClusterType = SingleCluster /\ counter >= c.NumBrokers
         THEN [brokers |-> brokers, counter |-> counter]
         ELSE AddBrokers(c, brokerIdx + 1, counter + 1,
                         brokers @@ (counter :> BrokerInfo(counter)))

\* The outer loop of the initialisation.
RECURSIVE AddDCs(_, _, _, _)
AddDCs(c, dcIdx, counter, acc) ==
    IF dcIdx >= NumDCsOf(c) THEN [dcs |-> acc, counter |-> counter]
    ELSE LET dcID == dcIdx + 1
             r == AddBrokers(c, 0, counter, <<>>)
         IN AddDCs(c, dcIdx + 1, r.counter,
                   acc @@ (dcID :> DCInfo(dcID, r.brokers)))

\* ------------------------------------------------------------- advisory
\* The advisory string, as the values formatted into it.  <<>> is "".
DivisionByZero(c) ==
    /\ c.ClusterType = MRC
    /\ ~(c.ReplicationFactor <= c.NumDCs)
    /\ c.NumDCs = 0

\* Variant: no advisory when the request has no broker.
Recommendation_EmptyWithoutBrokers(c) ==
    IF c.ClusterType = MRC /\ c.NumBrokers * c.NumDCs > 0
    THEN IF c.ReplicationFactor <= c.NumDCs
         THEN <<"Distribute", c.ReplicationFactor, c.NumDCs, "AtMostOnePerDC">>
         ELSE <<"Distribute", c.ReplicationFactor, c.NumDCs, "PerDC",
                c.ReplicationFactor \div c.NumDCs,
                c.ReplicationFactor % c.NumDCs>>
    ELSE <<>>

\* Variant: extra is the difference RF - NumDCs instead of the remainder.
Recommendation_ExtraBySubtraction(c) ==
    IF c.ClusterType = MRC
    THEN IF c.ReplicationFactor <= c.NumDCs
         THEN <<"Distribute", c.ReplicationFactor, c.NumDCs, "AtMostOnePerDC">>
         ELSE <<"Distribute", c.ReplicationFactor, c.NumDCs, "PerDC",
                c.ReplicationFactor \div c.NumDCs,
                c.ReplicationFactor - c.NumDCs>>
    ELSE <<>>

\* Variant: the request counts as multi-region as soon as it has two DCs.
Recommendation_ByDCs(c) ==
    IF c.ClusterType = MRC \/ c.NumDCs >= 2
    THEN IF c.ReplicationFactor <= c.NumDCs
         THEN <<"Distribute", c.ReplicationFactor, c.NumDCs, "AtMostOnePerDC">>
         ELSE <<"Distribute", c.ReplicationFactor, c.NumDCs, "PerDC",
                c.ReplicationFactor \div c.NumDCs,
                c.ReplicationFactor % c.NumDCs>>
    ELSE <<>>

\* Lines 65-75: the advisory; <<>> is the initial "" of line 28.
Recommendation(c) ==
    IF c.ClusterType = MRC
    THEN IF c.ReplicationFactor <= c.NumDCs
         THEN <<"Distribute", c.ReplicationFactor, c.NumDCs, "AtMostOnePerDC">>
         ELSE <<"Distribute", c.ReplicationFactor, c.NumDCs, "PerDC",
                c.ReplicationFactor \div c.NumDCs,
                c.ReplicationFactor % c.NumDCs>>
    ELSE <<>>

\* ----------------------------------------------------------- findBroker
NilDC == 0

\* Variant: only the first DC is searched.
FindBroker_FirstDCOnly(brokerID, d) ==
    IF 1 \in DOMAIN d /\ brokerID \in DOMAIN d[1].Brokers THEN 1 ELSE NilDC

\* findBroker: the ID of the DC holding brokerID, NilDC for (nil, nil).
FindBroker(brokerID, d) ==
    IF \E dcID \in DOMAIN d : brokerID \in DOMAIN d[dcID].Brokers
    THEN CHOOSE dcID \in DOMAIN d : brokerID \in DOMAIN d[dcID].Brokers
    ELSE NilDC

\* Variant: the collection loop visits the brokers of all DCs in any order.
AllBrokerIDOrders_AcrossDCs(d, n) ==
    LET present == {k \in 1..n : k \in DOMAIN d}
    IN Perms(UNION {DOMAIN d[k].Brokers : k \in present})

\* The orders in which the collection loop can produce allBrokerIDs: DCs in
\* ascending ID, the brokers of one DC in the order of a Go map iteration.
AllBrokerIDOrders(d, n) ==
    LET present == {k \in 1..n : k \in DOMAIN d}
    IN { s \in Perms(UNION {DOMAIN d[k].Brokers : k \in present}) :
           \A a, b \in DOMAIN s :
               a < b => FindBroker(s[a], d) <= FindBroker(s[b], d) }

\* Variant: partition IDs left 0-based.
PartitionID_ZeroBased(idx) == idx

\* ------------------------------------------------------ placement logic
\* partitionID := p + 1
PartitionID(idx) == idx + 1

\* Variant: the leader is always the first broker of the list.
LeaderBrokerID_First(idx) == allBrokerIDs[1]

\* leaderBrokerID := allBrokerIDs[p%totalBrokers]
LeaderBrokerID(idx) == allBrokerIDs[(idx % totalBrokers) + 1]
\* Variant: the leader is not counted toward the ISR quorum.
TargetFollowers_NoLeader(c) ==
    IF c.ClusterType = MRC
    THEN IF c.MinInSyncReplicas < 0 THEN 0 ELSE c.MinInSyncReplicas
    ELSE 0


TargetFollowers(c) ==
    IF c.ClusterType = MRC
    THEN IF c.MinInSyncReplicas - 1 < 0 THEN 0 ELSE c.MinInSyncReplicas - 1
    ELSE 0

\* Variant: the observers' target subtracts the ISR size, not the follower
\* target.
TargetObservers_MinusISR(c) ==
    IF c.ClusterType = MRC
    THEN IF c.ReplicationFactor - 1 - c.MinInSyncReplicas < 0 THEN 0
         ELSE c.ReplicationFactor - 1 - c.MinInSyncReplicas
    ELSE 0

\* targetObservers := RF - 1 - targetFollowers, at least 0.
TargetObservers(c) ==
    IF c.ClusterType = MRC
    THEN IF c.ReplicationFactor - 1 - TargetFollowers(c) < 0 THEN 0
         ELSE c.ReplicationFactor - 1 - TargetFollowers(c)
    ELSE 0

\* Variant: the already-assigned check is missing.
AlreadyAssigned_Never(brokerID) == FALSE

\* Skip if broker already has a replica for this partition.
AlreadyAssigned(brokerID) == brokerID \in assignedBrokerIDs

\* Variant: the scan never finds another DC.
CanPlaceElsewhere_Never == FALSE

\* The inner scan of pass 1: some unassigned broker lies in an unused DC.
CanPlaceElsewhere ==
    \E k \in DOMAIN shuffledBrokerIDs :
        /\ shuffledBrokerIDs[k] \notin assignedBrokerIDs
        /\ FindBroker(shuffledBrokerIDs[k], dcs) # NilDC
        /\ FindBroker(shuffledBrokerIDs[k], dcs) \notin assignedDCs

\* Variant: no DC preference in pass 1.
PlaceInThisDC_Always(brokerID) == TRUE

\* Variant: the DC preference stops one DC early.
PlaceInThisDC_OffByOne(brokerID) ==
    IF cfg.ClusterType = MRC /\ Cardinality(assignedDCs) + 1 < cfg.NumDCs
    THEN IF FindBroker(brokerID, dcs) \in assignedDCs
         THEN ~CanPlaceElsewhere
         ELSE TRUE
    ELSE TRUE

\* placeInThisDC of pass 1.
PlaceInThisDC(brokerID) ==
    IF cfg.ClusterType = MRC /\ Cardinality(assignedDCs) < cfg.NumDCs
    THEN IF FindBroker(brokerID, dcs) \in assignedDCs
         THEN ~CanPlaceElsewhere
         ELSE TRUE
    ELSE TRUE

\* The role chain of the MRC branch, shared by pass 1 and pass 2.
MRCRole(nf, no) ==
    IF nf < TargetFollowers(cfg) THEN Follower
    ELSE IF no < TargetObservers(cfg) THEN Observer
    ELSE Observer

\* Variant: the single-cluster branch of the role choice is missing.
Pass1Role_NoSingle(nf, no) == MRCRole(nf, no)

\* The role choice of pass 1.
Pass1Role(nf, no) ==
    IF cfg.ClusterType = SingleCluster THEN Follower ELSE MRCRole(nf, no)

\* Variant: there is no second pass.
NeedSecondPass_Never == FALSE

\* Second pass for MRC if needed.
NeedSecondPass ==
    cfg.ClusterType = MRC /\ replicasPlaced < cfg.ReplicationFactor

AppendReplica(d, dcID, brokerID, partitionID, role) ==
    [d EXCEPT ![dcID].Brokers[brokerID].Replicas =
                  Append(@, ReplicaInfo(partitionID, role))]

\* ----------------------------------------------- front end: the model
\* Stage
AskClusterType == "AskClusterType"
AskSingleConfig == "AskSingleConfig"
AskMRCConfig == "AskMRCConfig"
ShowPlacement == "ShowPlacement"
ShowError == "ShowError"

\* The two front ends of the repository, and a call without a front end.
MainFrontEnd == "main"
TuiFrontEnd == "tui"
DirectCall == "direct"

\* A nil error.
NoError == <<>>

\* tea.Cmd values: nil or an empty batch, tea.Quit, textinput.Blink.
CmdNone == "none"
CmdQuit == "quit"
CmdBlink == "blink"

\* NewModel: every field not named is the zero value of its type.
NewModel ==
    [stage |-> AskClusterType,
     clusterType |-> SingleCluster,
     inputs |-> <<>>,
     focused |-> 0,
     err |-> NoError,
     width |-> 0,
     height |-> 0,
     numPartitions |-> 0,
     minInSyncReplicas |-> 0,
     replicationFactor |-> 0,
     numBrokers |-> 0,
     numDCs |-> 0,
     dcs |-> <<>>,
     mrcRecommendation |-> <<>>]

\* ------------------------------------------------------------------ Init
\* The locals of CalculatePlacement before its first statement.
EngineFresh ==
    /\ dcs = <<>>
    /\ totalBrokers = 0
    /\ mrcRecommendation = <<>>
    /\ allBrokerIDs = <<>>
    /\ p = 0
    /\ shuffledBrokerIDs = <<>>
    /\ i = 0
    /\ assignedBrokerIDs = {}
    /\ assignedDCs = {}
    /\ replicasPlaced = 0
    /\ numFollowers = 0
    /\ numObservers = 0

\* A direct call of CalculatePlacement with any request.
Init ==
    /\ impl = DirectCall
    /\ m = NewModel
    /\ msg = "none"
    /\ cmd = CmdNone
    /\ edits = 0
    /\ cfg \in PlacementConfig
    /\ pc = "start"
    /\ EngineFresh

\* --------------------------------------------------------------- actions
\* Lines 25-97: build DCs and brokers, the advisory, the global broker list,
\* and return at once when there is no broker.  The integer division of the
\* advisory panics when cfg.NumDCs is 0.
BuildTopology ==
    /\ pc = "start"
    /\ impl # MainFrontEnd
    /\ LET r == AddDCs(cfg, 0, 0, <<>>)
       IN /\ dcs' = r.dcs
          /\ totalBrokers' = r.counter
          /\ IF DivisionByZero(cfg)
             THEN /\ pc' = "panic"
                  /\ UNCHANGED <<mrcRecommendation, allBrokerIDs>>
             ELSE /\ mrcRecommendation' = Recommendation(cfg)
                  /\ allBrokerIDs' \in AllBrokerIDOrders(r.dcs, NumDCsOf(cfg))
                  /\ pc' = IF r.counter > 0 /\ Len(allBrokerIDs') = 0 THEN "done"
                           ELSE IF r.counter = 0 THEN "done"
                           ELSE "partition"
    /\ UNCHANGED <<cfg, p, locals>>
    /\ UNCHANGED ui

\* Lines 99-138: head of the partition loop: shuffle, leader, targets.
StartPartition ==
    /\ pc = "partition"
    /\ p < cfg.NumPartitions
    /\ \E shuffled \in Perms(Range(allBrokerIDs)) :
         LET leaderBrokerID == LeaderBrokerID(p)
             leaderDC == FindBroker(leaderBrokerID, dcs)
         IN IF leaderDC = NilDC
            THEN \* continue: skip this partition
                 /\ p' = p + 1
                 /\ UNCHANGED <<pc, dcs, locals>>
            ELSE /\ dcs' = AppendReplica(dcs, leaderDC, leaderBrokerID,
                                         PartitionID(p), Leader)
                 /\ shuffledBrokerIDs' = shuffled
                 /\ assignedBrokerIDs' = {leaderBrokerID}
                 /\ assignedDCs' = {leaderDC}
                 /\ replicasPlaced' = 1
                 /\ numFollowers' = 0
                 /\ numObservers' = 0
                 /\ i' = 1
                 /\ pc' = "pass1"
                 /\ UNCHANGED p
    /\ UNCHANGED <<cfg, totalBrokers, mrcRecommendation, allBrokerIDs>>
    /\ UNCHANGED ui

\* The first pass is at a candidate: the list is not exhausted, RF not met.
Pass1Running ==
    /\ pc = "pass1"
    /\ i <= Len(shuffledBrokerIDs)
    /\ replicasPlaced < cfg.ReplicationFactor

\* Lines 145-152: the candidate already holds a replica of this partition
\* (or cannot be found): continue.
Pass1Skip ==
    /\ Pass1Running
    /\ \/ AlreadyAssigned(shuffledBrokerIDs[i])
       \/ FindBroker(shuffledBrokerIDs[i], dcs) = NilDC
    /\ i' = i + 1
    /\ UNCHANGED <<cfg, pc, dcs, totalBrokers, mrcRecommendation, allBrokerIDs,
                   p, shuffledBrokerIDs, assignedBrokerIDs, assignedDCs,
                   replicasPlaced, numFollowers, numObservers>>
    /\ UNCHANGED ui

\* Lines 154-175: the candidate's DC is used and another DC can still be
\* reached: placeInThisDC is false, nothing is placed.
Pass1Defer ==
    /\ Pass1Running
    /\ ~AlreadyAssigned(shuffledBrokerIDs[i])
    /\ FindBroker(shuffledBrokerIDs[i], dcs) # NilDC
    /\ ~PlaceInThisDC(shuffledBrokerIDs[i])
    /\ i' = i + 1
    /\ UNCHANGED <<cfg, pc, dcs, totalBrokers, mrcRecommendation, allBrokerIDs,
                   p, shuffledBrokerIDs, assignedBrokerIDs, assignedDCs,
                   replicasPlaced, numFollowers, numObservers>>
    /\ UNCHANGED ui

\* Lines 175-199: place a replica on the candidate.
Pass1Place ==
    /\ Pass1Running
    /\ ~AlreadyAssigned(shuffledBrokerIDs[i])
    /\ FindBroker(shuffledBrokerIDs[i], dcs) # NilDC
    /\ PlaceInThisDC(shuffledBrokerIDs[i])
    /\ LET brokerID == shuffledBrokerIDs[i]
           dc == FindBroker(brokerID, dcs)
           role == Pass1Role(numFollowers, numObservers)
       IN /\ dcs' = AppendReplica(dcs, dc, brokerID, PartitionID(p), role)
          /\ assignedBrokerIDs' = assignedBrokerIDs \cup {brokerID}
          /\ assignedDCs' = assignedDCs \cup {dc}
          /\ replicasPlaced' = replicasPlaced + 1
          /\ numFollowers' = IF cfg.ClusterType = MRC /\ role = Follower
                             THEN numFollowers + 1 ELSE numFollowers
          /\ numObservers' = IF cfg.ClusterType = MRC /\ role = Observer
                             THEN numObservers + 1 ELSE numObservers
    /\ i' = i + 1
    /\ UNCHANGED <<cfg, pc, totalBrokers, mrcRecommendation, allBrokerIDs, p,
                   shuffledBrokerIDs>>
    /\ UNCHANGED ui

\* End of the per-partition locals' scope: the next iteration redeclares them.
NextPartition ==
    /\ p' = p + 1
    /\ pc' = "partition"
    /\ shuffledBrokerIDs' = <<>>
    /\ i' = 0
    /\ assignedBrokerIDs' = {}
    /\ assignedDCs' = {}
    /\ replicasPlaced' = 0
    /\ numFollowers' = 0
    /\ numObservers' = 0

\* Lines 141-144, 200-203: the first pass ends (list exhausted or RF met);
\* the second pass starts for MRC when replicas are missing.
Pass1End ==
    /\ pc = "pass1"
    /\ ~Pass1Running
    /\ IF NeedSecondPass
       THEN /\ pc' = "pass2"
            /\ i' = 1
            /\ UNCHANGED <<p, shuffledBrokerIDs, assignedBrokerIDs, assignedDCs,
                           replicasPlaced, numFollowers, numObservers>>
       ELSE NextPartition
    /\ UNCHANGED <<cfg, dcs, totalBrokers, mrcRecommendation, allBrokerIDs>>
    /\ UNCHANGED ui

Pass2Running ==
    /\ pc = "pass2"
    /\ i <= Len(shuffledBrokerIDs)
    /\ replicasPlaced < cfg.ReplicationFactor

\* Lines 208-215.
Pass2Skip ==
    /\ Pass2Running
    /\ \/ AlreadyAssigned(shuffledBrokerIDs[i])
       \/ FindBroker(shuffledBrokerIDs[i], dcs) = NilDC
    /\ i' = i + 1
    /\ UNCHANGED <<cfg, pc, dcs, totalBrokers, mrcRecommendation, allBrokerIDs,
                   p, shuffledBrokerIDs, assignedBrokerIDs, assignedDCs,
                   replicasPlaced, numFollowers, numObservers>>
    /\ UNCHANGED ui

\* Lines 217-233: place on any unassigned broker; assignedDCs is not updated.
Pass2Place ==
    /\ Pass2Running
    /\ ~AlreadyAssigned(shuffledBrokerIDs[i])
    /\ FindBroker(shuffledBrokerIDs[i], dcs) # NilDC
    /\ LET brokerID == shuffledBrokerIDs[i]
           dc == FindBroker(brokerID, dcs)
           role == MRCRole(numFollowers, numObservers)
       IN /\ dcs' = AppendReplica(dcs, dc, brokerID, PartitionID(p), role)
          /\ assignedBrokerIDs' = assignedBrokerIDs \cup {brokerID}
          /\ replicasPlaced' = replicasPlaced + 1
          /\ numFollowers' = IF role = Follower
                             THEN numFollowers + 1 ELSE numFollowers
          /\ numObservers' = IF role = Observer
                             THEN numObservers + 1 ELSE numObservers
    /\ i' = i + 1
    /\ UNCHANGED <<cfg, pc, totalBrokers, mrcRecommendation, allBrokerIDs, p,
                   shuffledBrokerIDs, assignedDCs>>
    /\ UNCHANGED ui

\* Lines 204-207, 234-236: the second pass ends.
Pass2End ==
    /\ pc = "pass2"
    /\ ~Pass2Running
    /\ NextPartition
    /\ UNCHANGED <<cfg, dcs, totalBrokers, mrcRecommendation, allBrokerIDs>>
    /\ UNCHANGED ui

\* Line 238: the partition loop is over.
Return ==
    /\ pc = "partition"
    /\ ~(p < cfg.NumPartitions)
    /\ pc' = "done"
    /\ UNCHANGED <<cfg, dcs, totalBrokers, mrcRecommendation, allBrokerIDs, p,
                   locals>>
    /\ UNCHANGED ui

Next ==
    \/ BuildTopology
    \/ StartPartition
    \/ Pass1Skip
    \/ Pass1Defer
    \/ Pass1Place
    \/ Pass1End
    \/ Pass2Skip
    \/ Pass2Place
    \/ Pass2End
    \/ Return

Spec == Init /\ [][Next]_vars

\* The call runs on one thread without suspension points: while a statement
\* is left to execute, one is executed.
FairSpec == Spec /\ WF_vars(Next)

\* ------------------------------------------- front end: input fields
\* placeholders of setupInputsForStage
Placeholders(stage) ==
    IF stage = AskSingleConfig
    THEN <<"Total Brokers", "Partitions", "Replication Factor", "Min ISR">>
    ELSE IF stage = AskMRCConfig
    THEN <<"Data Centers", "Brokers per DC", "Partitions",
           "Replication Factor", "Min ISR">>
    ELSE <<>>

\* The decimal texts of the numbers a field can hold in this model.
Digits == <<"0", "1", "2", "3", "4", "5", "6", "7", "8", "9">>

\* strconv.Atoi on the texts of the model: ok is FALSE for an error.
Atoi(text) ==
    IF \E n \in DOMAIN Digits : Digits[n] = text
    THEN [ok |-> TRUE, val |-> (CHOOSE n \in DOMAIN Digits : Digits[n] = text) - 1]
    ELSE [ok |-> FALSE, val |-> 0]

\* The largest number typed into the field with this placeholder.
FieldMax(placeholder) ==
    IF placeholder = "Replication Factor" THEN MaxRF ELSE MaxTyped

\* The texts typed into a field: erased, or a number.  A text that is not a
\* number ("x") enters a form only as the letter of the selection key.
FieldTexts(placeholder) ==
    {""} \cup {Digits[n + 1] : n \in 0..FieldMax(placeholder)}

\* setupInputsForStage; the tui package also clears m.err.
SetupInputsForStage(which, mm) ==
    LET n == Len(Placeholders(mm.stage))
        cleared == [mm EXCEPT !.inputs = [k \in 1..n |-> ""], !.focused = 0]
    IN IF which = TuiFrontEnd THEN [cleared EXCEPT !.err = NoError] ELSE cleared

\* ------------------------------------ front end: parseAndValidateInputs
\* Variant: the parsing loop lets a number that is not positive through.
FieldError_AcceptsZero(text, placeholder) ==
    IF text = "" THEN <<"cannot be empty", placeholder>>
    ELSE IF ~Atoi(text).ok THEN <<"invalid number", placeholder>>
    ELSE NoError

\* The three checks of the parsing loop on one field.
FieldError(text, placeholder) ==
    IF text = "" THEN <<"cannot be empty", placeholder>>
    ELSE IF ~Atoi(text).ok THEN <<"invalid number", placeholder>>
    ELSE IF Atoi(text).val <= 0 THEN <<"must be positive", placeholder>>
    ELSE NoError

\* The error the parsing loop returns: that of the first failing field.
ParseError(mm) ==
    LET bad == {k \in DOMAIN mm.inputs :
                   FieldError(mm.inputs[k], Placeholders(mm.stage)[k]) # NoError}
    IN IF bad = {} THEN NoError
       ELSE LET k == CHOOSE x \in bad : \A y \in bad : x <= y
            IN FieldError(mm.inputs[k], Placeholders(mm.stage)[k])

\* Variant: a Single form leaves m.numDCs as it was.
AssignValues_KeepsNumDCs(mm) ==
    LET values == [k \in DOMAIN mm.inputs |-> Atoi(mm.inputs[k]).val]
    IN IF mm.stage = AskSingleConfig
       THEN [mm EXCEPT !.numBrokers = values[1],
                       !.numPartitions = values[2],
                       !.replicationFactor = values[3],
                       !.minInSyncReplicas = values[4]]
       ELSE [mm EXCEPT !.numDCs = values[1],
                       !.numBrokers = values[2],
                       !.numPartitions = values[3],
                       !.replicationFactor = values[4],
                       !.minInSyncReplicas = values[5]]

\* Assign parsed values to model fields based on stage.
AssignValues(mm) ==
    LET values == [k \in DOMAIN mm.inputs |-> Atoi(mm.inputs[k]).val]
    IN IF mm.stage = AskSingleConfig
       THEN [mm EXCEPT !.numBrokers = values[1],
                       !.numPartitions = values[2],
                       !.replicationFactor = values[3],
                       !.minInSyncReplicas = values[4],
                       !.numDCs = 1]
       ELSE [mm EXCEPT !.numDCs = values[1],
                       !.numBrokers = values[2],
                       !.numPartitions = values[3],
                       !.replicationFactor = values[4],
                       !.minInSyncReplicas = values[5]]

\* totalBrokers of the logical validation.
TotalBrokersOf(mm) ==
    IF mm.clusterType = MRC THEN mm.numBrokers * mm.numDCs ELSE mm.numBrokers

\* The logical validation of main.go, lines 453-481.
LogicalErrorMain(mm) ==
    IF mm.clusterType = MRC /\ mm.numDCs <= 1
    THEN <<"MRC requires at least 2 Data Centers">>
    ELSE IF mm.replicationFactor > TotalBrokersOf(mm)
    THEN <<"replication Factor cannot exceed total brokers">>
    ELSE IF mm.minInSyncReplicas > mm.replicationFactor
    THEN <<"min ISR cannot exceed Replication Factor">>
    ELSE IF mm.minInSyncReplicas <= 0 THEN <<"min ISR must be positive">>
    ELSE IF mm.replicationFactor <= 0
    THEN <<"replication Factor must be positive">>
    ELSE IF mm.numPartitions <= 0
    THEN <<"number of partitions must be positive">>
    ELSE IF mm.numBrokers <= 0 THEN <<"number of brokers must be positive">>
    ELSE NoError

\* Variant: the replication factor is not compared with the broker count.
LogicalErrorTui_NoRFCheck(mm) ==
    IF mm.clusterType = MRC /\ mm.numDCs <= 1
    THEN <<"MRC requires at least 2 Data Centers">>
    ELSE IF TotalBrokersOf(mm) <= 0
    THEN <<"total number of brokers must be positive">>
    ELSE IF mm.minInSyncReplicas > mm.replicationFactor
    THEN <<"min ISR cannot exceed Replication Factor">>
    ELSE NoError

\* The logical validation of the tui package, lines 99-120.
LogicalErrorTui(mm) ==
    IF mm.clusterType = MRC /\ mm.numDCs <= 1
    THEN <<"MRC requires at least 2 Data Centers">>
    ELSE IF TotalBrokersOf(mm) <= 0
    THEN <<"total number of brokers must be positive">>
    ELSE IF mm.replicationFactor > TotalBrokersOf(mm)
    THEN <<"replication Factor cannot exceed total brokers">>
    ELSE IF mm.minInSyncReplicas > mm.replicationFactor
    THEN <<"min ISR cannot exceed Replication Factor">>
    ELSE NoError

\* parseAndValidateInputs: the model as the call leaves it, and its error.
\* The fields are assigned before the logical validation runs.
ParseAndValidateInputs(which, mm) ==
    IF ParseError(mm) # NoError THEN [m |-> mm, err |-> ParseError(mm)]
    ELSE LET assigned == AssignValues(mm)
         IN [m |-> assigned,
             err |-> IF which = MainFrontEnd THEN LogicalErrorMain(assigned)
                     ELSE LogicalErrorTui(assigned)]

\* The request handed to the engine on a successful validation.
ConfigOf(mm) ==
    [ClusterType |-> mm.clusterType,
     NumPartitions |-> mm.numPartitions,
     ReplicationFactor |-> mm.replicationFactor,
     MinInSyncReplicas |-> mm.minInSyncReplicas,
     NumBrokers |-> mm.numBrokers,
     NumDCs |-> mm.numDCs]

\* ------------------------------- main.go: the head of calculatePlacement
\* The inner loop of main.go's initialisation: m.numBrokers brokers per DC,
\* without the single-cluster break.
RECURSIVE AddBrokersMain(_, _, _, _)
AddBrokersMain(c, brokerIdx, counter, brokers) ==
    IF brokerIdx >= c.NumBrokers THEN [brokers |-> brokers, counter |-> counter]
    ELSE AddBrokersMain(c, brokerIdx + 1, counter + 1,
                        brokers @@ (counter :> BrokerInfo(counter)))

\* The outer loop of main.go's initialisation: m.numDCs DCs, not forced to 1.
RECURSIVE AddDCsMain(_, _, _, _)
AddDCsMain(c, dcIdx, counter, acc) ==
    IF dcIdx >= c.NumDCs THEN [dcs |-> acc, counter |-> counter]
    ELSE LET dcID == dcIdx + 1
             r == AddBrokersMain(c, 0, counter, <<>>)
         IN AddDCsMain(c, dcIdx + 1, r.counter,
                       acc @@ (dcID :> DCInfo(dcID, r.brokers)))

\* main.go assigns m.mrcRecommendation only for MRC; otherwise the stored
\* value stays.
RecommendationMain(c, stored) ==
    IF c.ClusterType = MRC
    THEN IF c.ReplicationFactor <= c.NumDCs
         THEN <<"Distribute", c.ReplicationFactor, c.NumDCs, "AtMostOnePerDC">>
         ELSE <<"Distribute", c.ReplicationFactor, c.NumDCs, "PerDC",
                c.ReplicationFactor \div c.NumDCs,
                c.ReplicationFactor % c.NumDCs>>
    ELSE stored

\* main.go's collection loop: DCs 1..m.numDCs in ascending ID, the brokers
\* of one DC in the order of a Go map iteration.
AllBrokerIDOrdersMain(d, n) ==
    { s \in Perms(UNION {DOMAIN d[k].Brokers : k \in 1..n}) :
        \A a, b \in DOMAIN s :
            a < b => FindBroker(s[a], d) <= FindBroker(s[b], d) }

\* main.go lines 486-527: calculatePlacement up to the partition loop.  There
\* is no return for a topology without brokers: the first leader index
\* p % totalBrokers then panics.
BuildTopologyMain ==
    /\ pc = "start"
    /\ impl = MainFrontEnd
    /\ LET r == AddDCsMain(cfg, 0, 0, <<>>)
       IN /\ dcs' = r.dcs
          /\ totalBrokers' = r.counter
          /\ IF DivisionByZero(cfg)
             THEN /\ pc' = "panic"
                  /\ UNCHANGED <<mrcRecommendation, allBrokerIDs>>
             ELSE /\ mrcRecommendation' =
                         RecommendationMain(cfg, m.mrcRecommendation)
                  /\ allBrokerIDs' \in AllBrokerIDOrdersMain(r.dcs, cfg.NumDCs)
                  /\ pc' = IF r.counter = 0 /\ cfg.NumPartitions > 0
                           THEN "panic" ELSE "partition"
    /\ UNCHANGED <<cfg, p, locals>>
    /\ UNCHANGED ui

\* ------------------------------------------------ front end: Update
\* The variables of CalculatePlacement.
engine == <<cfg, pc, dcs, totalBrokers, mrcRecommendation, allBrokerIDs, p,
            locals>>

\* The program is waiting for a message: no call of the engine is running
\* and tea.Quit has not been returned.
UpdateReady ==
    /\ impl \in {MainFrontEnd, TuiFrontEnd}
    /\ pc = "idle"
    /\ cmd # CmdQuit

InForm(mm) == mm.stage \in {AskSingleConfig, AskMRCConfig}

WindowSizes == {[width |-> 80, height |-> 24]}

\* The brokers the texts of a form ask for, 0 while a count is not a number.
FormBrokers(stage, inputs) ==
    IF stage = AskSingleConfig THEN Atoi(inputs[1]).val
    ELSE Atoi(inputs[1]).val * Atoi(inputs[2]).val

\* Does Update return tea.Quit for this key in this stage?  main.go tests
\* the key type first, for every stage; the tui package tests it per stage
\* and, in AskClusterType, compares msg.String() with "ctrl+c" only.
QuitsOn(which, stage, key) ==
    IF which = MainFrontEnd THEN key \in {"esc", "ctrl+c"}
    ELSE IF stage = AskClusterType THEN key = "ctrl+c"
    ELSE key \in {"esc", "ctrl+c"}

\* msg names the last message when it was Esc, Ctrl-C, Enter or a key that
\* selected the cluster type.
OtherMsg == "other"

NavigationKeys == {"tab", "shift+tab", "up", "down"}

\* m.focused after a navigation key, wrapped around.
Navigate(mm, key) ==
    LET moved == IF key \in {"up", "shift+tab"} THEN mm.focused - 1
                 ELSE mm.focused + 1
    IN IF moved >= Len(mm.inputs) THEN 0
       ELSE IF moved < 0 THEN Len(mm.inputs) - 1
       ELSE moved

\* case tea.WindowSizeMsg
WindowSizeMsg ==
    /\ UpdateReady
    /\ \E size \in WindowSizes :
           m' = [m EXCEPT !.width = size.width, !.height = size.height]
    /\ msg' = OtherMsg
    /\ cmd' = CmdNone
    /\ UNCHANGED <<impl, edits, engine>>

\* Esc and Ctrl-C.
KeyQuit ==
    /\ UpdateReady
    /\ \E key \in {"esc", "ctrl+c"} :
           /\ msg' = key
           /\ cmd' = IF QuitsOn(impl, m.stage, key) THEN CmdQuit ELSE CmdNone
    /\ UNCHANGED <<impl, m, edits, engine>>

\* Tab, Shift-Tab, Up, Down in a form: move the focus.
KeyNavigate ==
    /\ UpdateReady
    /\ InForm(m)
    /\ \E key \in NavigationKeys :
           m' = [m EXCEPT !.focused = Navigate(m, key)]
    /\ msg' = OtherMsg
    /\ cmd' = CmdNone
    /\ UNCHANGED <<impl, edits, engine>>

\* Variant: a failed validation moves to the error stage.
KeyEnterForm_ShowsError ==
    /\ UpdateReady
    /\ InForm(m)
    /\ msg' = "enter"
    /\ cmd' = CmdNone
    /\ IF m.focused = Len(m.inputs) - 1
       THEN LET r == ParseAndValidateInputs(impl, m)
            IN IF r.err # NoError
               THEN /\ m' = [r.m EXCEPT !.err = r.err, !.stage = ShowError]
                    /\ UNCHANGED engine
               ELSE /\ m' = [r.m EXCEPT !.err = NoError, !.stage = ShowPlacement]
                    /\ cfg' = ConfigOf(r.m)
                    /\ pc' = "start"
                    /\ UNCHANGED <<dcs, totalBrokers, mrcRecommendation,
                                   allBrokerIDs, p, locals>>
       ELSE /\ m' = [m EXCEPT !.focused = (m.focused + 1) % Len(m.inputs)]
            /\ UNCHANGED engine
    /\ UNCHANGED <<impl, edits>>

\* Enter in a form.  On the last field the inputs are validated; on success
\* the stage becomes ShowPlacement and the engine is called with the stored
\* values.  On another field the focus moves on.
KeyEnterForm ==
    /\ UpdateReady
    /\ InForm(m)
    /\ msg' = "enter"
    /\ cmd' = CmdNone
    /\ IF m.focused = Len(m.inputs) - 1
       THEN LET r == ParseAndValidateInputs(impl, m)
            IN IF r.err # NoError
               THEN /\ m' = [r.m EXCEPT !.err = r.err]
                    /\ UNCHANGED engine
               ELSE /\ m' = [r.m EXCEPT !.err = NoError, !.stage = ShowPlacement]
                    /\ cfg' = ConfigOf(r.m)
                    /\ pc' = "start"
                    /\ UNCHANGED <<dcs, totalBrokers, mrcRecommendation,
                                   allBrokerIDs, p, locals>>
       ELSE /\ m' = [m EXCEPT !.focused = (m.focused + 1) % Len(m.inputs)]
            /\ UNCHANGED engine
    /\ UNCHANGED <<impl, edits>>

\* The call of the engine returns into Update: m.dcs and m.mrcRecommendation
\* take the result, and the call's argument and locals are gone.
\* calculatePlacement of main.go assigns the advisory only for MRC.
PlacementReturned ==
    /\ impl \in {MainFrontEnd, TuiFrontEnd}
    /\ pc = "done"
    /\ m' = [m EXCEPT !.dcs = dcs,
                      !.mrcRecommendation =
                          IF impl = MainFrontEnd /\ m.clusterType # MRC THEN @
                          ELSE mrcRecommendation]
    /\ pc' = "idle"
    /\ cfg' = ConfigOf(NewModel)
    /\ dcs' = <<>>
    /\ totalBrokers' = 0
    /\ mrcRecommendation' = <<>>
    /\ allBrokerIDs' = <<>>
    /\ p' = 0
    /\ shuffledBrokerIDs' = <<>>
    /\ i' = 0
    /\ assignedBrokerIDs' = {}
    /\ assignedDCs' = {}
    /\ replicasPlaced' = 0
    /\ numFollowers' = 0
    /\ numObservers' = 0
    /\ UNCHANGED <<impl, msg, cmd, edits>>

\* Variant: Enter in the results stage goes back to the selection but keeps
\* the rest of the model.
KeyEnterResults_KeepsModel ==
    /\ UpdateReady
    /\ m.stage \in {ShowPlacement, ShowError}
    /\ m' = [m EXCEPT !.stage = AskClusterType, !.inputs = <<>>, !.focused = 0]
    /\ msg' = "enter"
    /\ cmd' = CmdBlink
    /\ edits' = 0
    /\ UNCHANGED <<impl, engine>>

\* Enter in ShowPlacement or ShowError: return NewModel(), textinput.Blink.
KeyEnterResults ==
    /\ UpdateReady
    /\ m.stage \in {ShowPlacement, ShowError}
    /\ m' = NewModel
    /\ msg' = "enter"
    /\ cmd' = CmdBlink
    /\ edits' = 0
    /\ UNCHANGED <<impl, engine>>

\* S or M in AskClusterType: set the cluster type, open the form.  The key
\* is then passed to the focused first input, which keeps the letter or
\* rejects it.
KeySelectType ==
    /\ UpdateReady
    /\ m.stage = AskClusterType
    /\ \E key \in {"s", "S", "m", "M"}, first \in {"", "x"} :
           /\ msg' = key
           /\ LET chosen == IF key \in {"s", "S"}
                            THEN [m EXCEPT !.clusterType = SingleCluster,
                                           !.stage = AskSingleConfig]
                            ELSE [m EXCEPT !.clusterType = MRC,
                                           !.stage = AskMRCConfig]
              IN m' = [SetupInputsForStage(impl, chosen) EXCEPT !.inputs[1] = first]
    /\ cmd' = CmdNone
    /\ edits' = 0
    /\ UNCHANGED <<impl, engine>>

\* Any other key in a form goes to the focused input and changes its text.
KeyRunes ==
    /\ UpdateReady
    /\ InForm(m)
    /\ m.err = NoError \/ edits < MaxEdits
    /\ \E text \in FieldTexts(Placeholders(m.stage)[m.focused + 1]) :
           /\ text # m.inputs[m.focused + 1]
           /\ FormBrokers(m.stage, [m.inputs EXCEPT ![m.focused + 1] = text])
                  <= MaxTotalBrokers
           /\ m' = [m EXCEPT !.inputs[m.focused + 1] = text]
    /\ msg' = OtherMsg
    /\ cmd' = CmdNone
    /\ edits' = IF m.err = NoError THEN edits ELSE edits + 1
    /\ UNCHANGED <<impl, engine>>

\* The keys no case handles: Enter and navigation in AskClusterType, letters
\* and navigation in ShowPlacement and ShowError.
KeyIgnored ==
    /\ UpdateReady
    /\ \E key \in {"enter", "runes"} \cup NavigationKeys :
           /\ CASE m.stage = AskClusterType -> TRUE
                [] m.stage \in {ShowPlacement, ShowError} -> key # "enter"
                [] OTHER -> FALSE
           /\ msg' = IF key = "enter" THEN key ELSE OtherMsg
    /\ cmd' = CmdNone
    /\ UNCHANGED <<impl, m, edits, engine>>

\* The program started with one of the two front ends.
InitUI ==
    /\ impl \in {MainFrontEnd, TuiFrontEnd}
    /\ m = NewModel
    /\ msg = "none"
    /\ cmd = CmdNone
    /\ edits = 0
    /\ cfg = ConfigOf(NewModel)
    /\ pc = "idle"
    /\ EngineFresh

NextUI ==
    \/ WindowSizeMsg
    \/ KeyQuit
    \/ KeyNavigate
    \/ KeyEnterForm
    \/ KeyEnterResults
    \/ KeySelectType
    \/ KeyRunes
    \/ KeyIgnored
    \/ PlacementReturned
    \/ BuildTopology
    \/ BuildTopologyMain
    \/ StartPartition
    \/ Pass1Skip
    \/ Pass1Defer
    \/ Pass1Place
    \/ Pass1End
    \/ Pass2Skip
    \/ Pass2Place
    \/ Pass2End
    \/ Return

SpecUI == InitUI /\ [][NextUI]_vars

\* ------------------------------------------------- reading the result
\* Every replica of the result: <<DC ID, broker ID, index in Replicas>>.
Placed ==
    UNION { UNION { {<<d, b, k>> : k \in DOMAIN dcs[d].Brokers[b].Replicas}
                    : b \in DOMAIN dcs[d].Brokers }
            : d \in DOMAIN dcs }

ReplicaAt(t) == dcs[t[1]].Brokers[t[2]].Replicas[t[3]]

ReplicasOf(part) == {t \in Placed : ReplicaAt(t).PartitionID = part}

WithRole(part, role) == {t \in ReplicasOf(part) : ReplicaAt(t).Role = role}

ZonesOf(part) == {t[1] : t \in ReplicasOf(part)}

LeadersOn(d, b) ==
    Cardinality({k \in DOMAIN dcs[d].Brokers[b].Replicas :
                    dcs[d].Brokers[b].Replicas[k].Role = Leader})

\* Every broker of the result: <<DC ID, broker ID>>.
BrokerSlots ==
    UNION { {<<d, b>> : b \in DOMAIN dcs[d].Brokers} : d \in DOMAIN dcs }

Min(a, b) == IF a < b THEN a ELSE b

\* Total brokers the request asks for: B in Single mode, B*Z in MultiRegion.
RequestedBrokers(c) ==
    IF c.ClusterType = SingleCluster THEN c.NumBrokers
    ELSE c.NumBrokers * c.NumDCs

\* The requests the front end lets through.
ValidRequest(c) ==
    /\ c.NumPartitions >= 1
    /\ c.NumBrokers >= 1
    /\ 1 <= c.MinInSyncReplicas
    /\ c.MinInSyncReplicas <= c.ReplicationFactor
    /\ c.ReplicationFactor <= RequestedBrokers(c)
    /\ c.ClusterType = MRC => c.NumDCs >= 2

Returned == pc = "done"

\* ---------------------------------------------------------------- claims
\* C1: for every valid request, in the returned topology every partition
\* 1..P has exactly one Leader replica over all brokers of all zones, and no
\* replica carries a partition ID outside 1..P.
C1_OneLeaderPerPartition ==
    (Returned /\ ValidRequest(cfg)) =>
        /\ \A part \in 1..cfg.NumPartitions :
               Cardinality(WithRole(part, Leader)) = 1
        /\ \A t \in Placed : ReplicaAt(t).PartitionID \in 1..cfg.NumPartitions

C1_Witness ==
    /\ Returned /\ ValidRequest(cfg)
    /\ cfg.ClusterType = MRC
    /\ cfg.NumPartitions >= 3
    /\ cfg.ReplicationFactor >= 3
    /\ Cardinality(Placed) = cfg.NumPartitions * cfg.ReplicationFactor

\* C2: for every request with RF >= 1 and at least one broker, in both
\* modes, each partition ends with min(RF, total brokers) replicas, leader
\* included; that is RF when RF <= total brokers.
C2_ReplicaCount ==
    (Returned /\ cfg.ReplicationFactor >= 1 /\ totalBrokers >= 1) =>
        \A part \in 1..cfg.NumPartitions :
            /\ Cardinality(ReplicasOf(part)) =
                   Min(cfg.ReplicationFactor, totalBrokers)
            /\ cfg.ReplicationFactor <= totalBrokers =>
                   Cardinality(ReplicasOf(part)) = cfg.ReplicationFactor

\* A partition whose last replica was placed by pass 2 is complete, and a
\* request with RF above the broker count has returned.
C2_Witness ==
    /\ Returned
    /\ cfg.ClusterType = MRC
    /\ cfg.NumPartitions >= 1
    /\ cfg.ReplicationFactor = 4 /\ totalBrokers = 4
    /\ Cardinality(ReplicasOf(1)) = 4
    /\ \E t \in WithRole(1, Observer) : t[1] \in {u[1] : u \in WithRole(1, Leader)}

\* C3: for every valid request no broker holds two replicas of the same
\* partition, at any point of the placement and in the result.
C3_NoDuplicatePair ==
    ValidRequest(cfg) =>
        \A t, u \in Placed :
            (t[1] = u[1] /\ t[2] = u[2] /\ t[3] # u[3]) =>
                ReplicaAt(t).PartitionID # ReplicaAt(u).PartitionID

\* A broker holds replicas of two partitions, one as leader and one placed
\* by a pass, in a result where every broker is used by every partition.
C3_Witness ==
    /\ Returned /\ ValidRequest(cfg)
    /\ cfg.NumPartitions >= 2
    /\ cfg.ReplicationFactor = totalBrokers
    /\ totalBrokers >= 3
    /\ \A sl \in BrokerSlots :
           Len(dcs[sl[1]].Brokers[sl[2]].Replicas) = cfg.NumPartitions

\* C4 (as claimed): in every run the leader of partition part (1-based) is
\* the broker whose ID is (part-1) mod totalBrokers.
C4_LeaderIsIndexModTotal ==
    (Returned /\ ValidRequest(cfg)) =>
        \A part \in 1..cfg.NumPartitions :
            \A t \in WithRole(part, Leader) :
                t[2] = (part - 1) % totalBrokers

\* C5: for every valid request the numbers of Leader replicas held by any
\* two brokers differ by at most 1.
C5_LeadersEven ==
    (Returned /\ ValidRequest(cfg)) =>
        \A s1, s2 \in BrokerSlots :
            LeadersOn(s1[1], s1[2]) - LeadersOn(s2[1], s2[2]) <= 1

C5_Witness ==
    /\ Returned /\ ValidRequest(cfg)
    /\ cfg.NumPartitions = 4
    /\ totalBrokers = 3
    /\ \E s1, s2 \in BrokerSlots :
           LeadersOn(s1[1], s1[2]) = 2 /\ LeadersOn(s2[1], s2[2]) = 1

\* C6: in Single mode no replica has role Observer, at any point and for any
\* minISR and RF: every non-leader replica is a Follower.
C6_NoObserverInSingle ==
    cfg.ClusterType = SingleCluster =>
        \A t \in Placed : ReplicaAt(t).Role \in {Leader, Follower}

\* minISR = 1 would make every non-leader an Observer in MultiRegion mode.
C6_Witness ==
    /\ Returned
    /\ cfg.ClusterType = SingleCluster
    /\ cfg.MinInSyncReplicas <= 1
    /\ cfg.ReplicationFactor >= 3
    /\ \E t \in Placed : ReplicaAt(t).Role = Follower

\* C7: in MultiRegion mode, for every valid request, every partition ends
\* with exactly minISR-1 Followers and RF-minISR Observers besides its
\* Leader.
C7_RoleCounts ==
    (Returned /\ ValidRequest(cfg) /\ cfg.ClusterType = MRC) =>
        \A part \in 1..cfg.NumPartitions :
            /\ Cardinality(WithRole(part, Follower)) = cfg.MinInSyncReplicas - 1
            /\ Cardinality(WithRole(part, Observer)) =
                   cfg.ReplicationFactor - cfg.MinInSyncReplicas
            /\ Cardinality(WithRole(part, Leader))
                   + Cardinality(WithRole(part, Follower)) = cfg.MinInSyncReplicas

C7_Witness ==
    /\ Returned /\ ValidRequest(cfg) /\ cfg.ClusterType = MRC
    /\ cfg.MinInSyncReplicas = 2 /\ cfg.ReplicationFactor = 4
    /\ Cardinality(WithRole(1, Follower)) = 1
    /\ Cardinality(WithRole(1, Observer)) = 2

\* C8: in MultiRegion mode with Z >= 2, B >= 1 and 1 <= RF <= B*Z, the
\* replicas of every partition lie in exactly min(RF, Z) distinct zones.
C8_ZoneSpread ==
    (/\ Returned
     /\ cfg.ClusterType = MRC
     /\ cfg.NumDCs >= 2 /\ cfg.NumBrokers >= 1
     /\ 1 <= cfg.ReplicationFactor
     /\ cfg.ReplicationFactor <= cfg.NumBrokers * cfg.NumDCs) =>
        \A part \in 1..cfg.NumPartitions :
            Cardinality(ZonesOf(part)) = Min(cfg.ReplicationFactor, cfg.NumDCs)

\* Two brokers per zone and RF = 2: the zone of the leader had a free broker
\* and the replica went to the other zone.
C8_Witness ==
    /\ Returned
    /\ cfg.ClusterType = MRC
    /\ cfg.NumDCs = 2 /\ cfg.NumBrokers = 2
    /\ cfg.ReplicationFactor = 2
    /\ cfg.NumPartitions >= 2
    /\ Cardinality(ZonesOf(1)) = 2 /\ Cardinality(ZonesOf(2)) = 2

\* C9: in MultiRegion mode with Z >= 2, B >= 1, RF >= 2 and minISR >= 2,
\* every partition has a Follower in a zone other than its Leader's zone.
C9_FollowerInOtherZone ==
    (/\ Returned
     /\ cfg.ClusterType = MRC
     /\ cfg.NumDCs >= 2 /\ cfg.NumBrokers >= 1
     /\ cfg.ReplicationFactor >= 2 /\ cfg.MinInSyncReplicas >= 2) =>
        \A part \in 1..cfg.NumPartitions :
            \E l \in WithRole(part, Leader), f \in WithRole(part, Follower) :
                l[1] # f[1]

C9_Witness ==
    /\ Returned
    /\ cfg.ClusterType = MRC
    /\ cfg.NumDCs = 2 /\ cfg.NumBrokers = 2
    /\ cfg.ReplicationFactor = 2 /\ cfg.MinInSyncReplicas = 2
    /\ cfg.NumPartitions >= 1
    /\ \E l \in WithRole(1, Leader), f \in WithRole(1, Follower) : l[1] # f[1]

\* C10: the result holds exactly the zones and brokers of the request:
\* zones 1..Z in MultiRegion mode and the single zone 1 in Single mode;
\* zone z holds exactly the brokers (z-1)*B .. z*B-1; the total is B in
\* Single mode and B*Z in MultiRegion mode.
C10_Topology ==
    Returned =>
        LET Z == IF cfg.ClusterType = SingleCluster THEN 1 ELSE cfg.NumDCs
            B == cfg.NumBrokers
        IN /\ DOMAIN dcs = 1..Z
           /\ \A z \in 1..Z :
                  /\ dcs[z].ID = z
                  /\ DOMAIN dcs[z].Brokers = ((z - 1) * B)..(z * B - 1)
                  /\ \A b \in DOMAIN dcs[z].Brokers : dcs[z].Brokers[b].ID = b
           /\ UNION {DOMAIN dcs[z].Brokers : z \in DOMAIN dcs} = 0..(totalBrokers - 1)
           /\ \A b \in 0..(totalBrokers - 1) :
                  Cardinality({z \in DOMAIN dcs : b \in DOMAIN dcs[z].Brokers}) = 1
           /\ totalBrokers = RequestedBrokers(cfg)

\* A Single request carrying Z = 3, and so three times as many brokers were
\* the zone count honoured.
C10_Witness ==
    /\ Returned
    /\ cfg.ClusterType = SingleCluster
    /\ cfg.NumDCs = 3
    /\ cfg.NumBrokers = 3
    /\ DOMAIN dcs = {1}
    /\ DOMAIN dcs[1].Brokers = {0, 1, 2}

\* C11 (as claimed): for every request whose total broker count is zero the
\* call returns normally, without a failure, and the returned topology holds
\* no replica.
C11_ZeroBrokersReturnEmpty ==
    (RequestedBrokers(cfg) = 0 /\ pc # "start") =>
        (Returned /\ Placed = {})

C13_AdvisoryFromRFAndZ ==
    (cfg.ClusterType = MRC /\ pc \notin {"start", "panic"}) =>
        LET a == mrcRecommendation
            RF == cfg.ReplicationFactor
            Z == cfg.NumDCs
        IN /\ Len(a) >= 4
           /\ a[1] = "Distribute" /\ a[2] = RF /\ a[3] = Z
           /\ IF RF <= Z
              THEN Len(a) = 4 /\ a[4] = "AtMostOnePerDC"
              ELSE /\ Len(a) = 6 /\ a[4] = "PerDC"
                   /\ a[5] * Z + a[6] = RF
                   /\ 0 <= a[6] /\ a[6] < Z

\* RF = 4 over Z = 2 zones of 2 brokers, in the middle of the second pass.
C13_Witness ==
    /\ pc = "pass2"
    /\ cfg.ClusterType = MRC
    /\ cfg.ReplicationFactor = 4 /\ cfg.NumDCs = 2
    /\ mrcRecommendation = <<"Distribute", 4, 2, "PerDC", 2, 0>>

\* C14: for every request in Single mode, whatever its other fields, the
\* advisory is empty at every point of the call and in the result.
C14_NoAdvisoryInSingle ==
    cfg.ClusterType = SingleCluster => mrcRecommendation = <<>>

C14_Witness ==
    /\ Returned
    /\ cfg.ClusterType = SingleCluster
    /\ cfg.NumDCs >= 2
    /\ cfg.ReplicationFactor > cfg.NumDCs
    /\ Placed # {}
    /\ mrcRecommendation = <<>>

\* The brokers holding a replica of partition part.
HoldersOf(part) == {t[2] : t \in ReplicasOf(part)}

\* The brokers that received a replica in the step.
NewlyPlaced ==
    {sl \in BrokerSlots :
        Len(dcs'[sl[1]].Brokers[sl[2]].Replicas)
            > Len(dcs[sl[1]].Brokers[sl[2]].Replicas)}

\* C19: in pass 1 of a MultiRegion request no replica of a partition goes to
\* a broker whose zone already holds one while a broker without a replica of
\* the partition lies in a zone that holds none; a candidate passed over in
\* pass 1 receives nothing for the rest of pass 1.
C19_SpreadFirst ==
    [][(pc = "pass1" /\ cfg.ClusterType = MRC) =>
          \A sl \in NewlyPlaced :
              /\ sl[1] \in ZonesOf(PartitionID(p)) =>
                     ~\E other \in BrokerSlots :
                         /\ other[2] \notin HoldersOf(PartitionID(p))
                         /\ other[1] \notin ZonesOf(PartitionID(p))
              /\ \A k \in 1..(i - 1) : shuffledBrokerIDs[k] # sl[2]]_vars

\* A candidate was passed over in pass 1, every zone got a replica, and the
\* second pass is about to place on the candidate.
C19_Witness ==
    /\ pc = "pass2"
    /\ cfg.ClusterType = MRC
    /\ cfg.NumDCs >= 2
    /\ ZonesOf(PartitionID(p)) = DOMAIN dcs
    /\ replicasPlaced < cfg.ReplicationFactor
    /\ i <= Len(shuffledBrokerIDs)
    /\ shuffledBrokerIDs[i] \notin HoldersOf(PartitionID(p))

\* C20: for every request with at least one broker the global broker list
\* has totalBrokers entries, the leader index p mod totalBrokers lies in it,
\* findBroker finds the leader's broker and zone, and no partition is
\* skipped: every partition taken up so far has its Leader.
C20_LeaderLookupSucceeds ==
    (totalBrokers >= 1 /\ pc \notin {"start", "panic"}) =>
        /\ Len(allBrokerIDs) = totalBrokers
        /\ (pc = "partition" /\ p < cfg.NumPartitions) =>
               /\ ((p % totalBrokers) + 1) \in DOMAIN allBrokerIDs
               /\ FindBroker(LeaderBrokerID(p), dcs) # NilDC
               /\ LeaderBrokerID(p) \in
                      DOMAIN dcs[FindBroker(LeaderBrokerID(p), dcs)].Brokers
        /\ \A part \in 1..p : Cardinality(WithRole(part, Leader)) = 1

\* The loop is at its last partition, led from the second zone.
C20_Witness ==
    /\ pc = "partition"
    /\ totalBrokers = 4
    /\ cfg.NumDCs = 2
    /\ cfg.ClusterType = MRC
    /\ p = 3 /\ cfg.NumPartitions = 4
    /\ FindBroker(LeaderBrokerID(p), dcs) = 2
    /\ \A part \in 1..3 : Cardinality(WithRole(part, Leader)) = 1

\* The values stored in the model are those of a validated configuration.
StoredValuesValid(mm) ==
    /\ mm.numPartitions >= 1
    /\ mm.numBrokers >= 1
    /\ mm.replicationFactor >= 1
    /\ 1 <= mm.minInSyncReplicas
    /\ mm.minInSyncReplicas <= mm.replicationFactor
    /\ mm.replicationFactor <= TotalBrokersOf(mm)
    /\ mm.clusterType = SingleCluster => mm.numDCs = 1
    /\ mm.clusterType = MRC => mm.numDCs >= 2

\* C15: in both front ends, whenever the stage is ShowPlacement the stored
\* values satisfy P >= 1, B >= 1, RF >= 1, 1 <= minISR <= RF, RF <= total
\* brokers, Z = 1 in Single mode and Z >= 2 in MultiRegion mode; and the
\* engine runs only in that stage, on exactly those stored values.
C15_PlacementOnlyWhenValidated ==
    /\ m.stage = ShowPlacement => StoredValuesValid(m)
    /\ pc # "idle" =>
           /\ m.stage = ShowPlacement
           /\ cfg = ConfigOf(m)
           /\ ValidRequest(cfg)

\* The tui front end shows the placement of a MultiRegion form that asked
\* for as many replicas as there are brokers, after an earlier rejection.
C15_Witness ==
    /\ impl = TuiFrontEnd
    /\ m.stage = ShowPlacement
    /\ pc = "idle"
    /\ m.clusterType = MRC
    /\ m.replicationFactor = m.numBrokers * m.numDCs
    /\ m.dcs # <<>>
    /\ edits = 1

\* The number typed into the field with this placeholder of the open form.
Typed(mm, placeholder) ==
    LET k == CHOOSE x \in DOMAIN mm.inputs : Placeholders(mm.stage)[x] = placeholder
    IN Atoi(mm.inputs[k]).val

\* The open form holds something the validation has to reject: an empty,
\* non-numeric or non-positive field, RF > total brokers, minISR > RF, or a
\* MultiRegion form with fewer than 2 zones.
FormInvalid(mm) ==
    \/ \E k \in DOMAIN mm.inputs :
           \/ mm.inputs[k] = ""
           \/ ~Atoi(mm.inputs[k]).ok
           \/ Atoi(mm.inputs[k]).val <= 0
    \/ Typed(mm, "Min ISR") > Typed(mm, "Replication Factor")
    \/ /\ mm.stage = AskSingleConfig
       /\ Typed(mm, "Replication Factor") > Typed(mm, "Total Brokers")
    \/ /\ mm.stage = AskMRCConfig
       /\ \/ Typed(mm, "Data Centers") < 2
          \/ Typed(mm, "Replication Factor") >
                 Typed(mm, "Data Centers") * Typed(mm, "Brokers per DC")

\* C16: when Enter is pressed on the last field of a form whose content is
\* invalid, the stage stays that form, an error is recorded, no placement is
\* started, the stored topology and advisory and the typed texts are
\* unchanged, and the program keeps running, so the form can be corrected
\* and submitted again.
C16_RejectedFormStays ==
    [][(/\ UpdateReady
        /\ InForm(m)
        /\ m.focused = Len(m.inputs) - 1
        /\ FormInvalid(m)
        /\ msg' = "enter")
       => (/\ m'.stage = m.stage
           /\ m'.err # NoError
           /\ pc' = "idle"
           /\ m'.dcs = m.dcs
           /\ m'.mrcRecommendation = m.mrcRecommendation
           /\ m'.inputs = m.inputs
           /\ m'.focused = m.focused
           /\ cmd' # CmdQuit)]_vars

\* The main front end has rejected a MultiRegion form that asked for more
\* replicas than brokers: the form is still open, with its error.
C16_Witness ==
    /\ impl = MainFrontEnd
    /\ m.stage = AskMRCConfig
    /\ msg = "enter"
    /\ m.focused = Len(m.inputs) - 1
    /\ m.inputs = <<"2", "1", "1", "3", "1">>
    /\ m.err = <<"replication Factor cannot exceed total brokers">>
    /\ m.dcs = <<>>
    /\ pc = "idle"
    /\ cmd # CmdQuit

\* C17 as stated: in every stage, in both front ends, Esc and Ctrl-C each
\* make Update return the quit command.
C17_EscAndCtrlCQuit ==
    msg \in {"esc", "ctrl+c"} => cmd = CmdQuit

\* What the code does: Ctrl-C quits in every stage of both front ends, and
\* Esc quits everywhere except in the selection stage of the tui package.
C17_QuitKeysExceptEscInSelection ==
    /\ msg = "ctrl+c" => cmd = CmdQuit
    /\ msg = "esc" => (cmd = CmdQuit \/ (impl = TuiFrontEnd /\ m.stage = AskClusterType))
    /\ (msg = "esc" /\ impl = TuiFrontEnd /\ m.stage = AskClusterType) => cmd # CmdQuit

\* Esc was pressed in the selection stage of the tui package and the
\* program is still running.
C17_Witness ==
    /\ impl = TuiFrontEnd
    /\ m.stage = AskClusterType
    /\ msg = "esc"
    /\ cmd = CmdNone

\* C18: pressing Enter in the results stage gives a fresh model: the stage
\* is AskClusterType, the topology is empty, the advisory, the error and all
\* stored configuration values are reset, and no call of the engine is left
\* with a topology: the next placement starts from an empty one.
C18_EnterRestartsFresh ==
    [][(/\ UpdateReady
        /\ m.stage \in {ShowPlacement, ShowError}
        /\ msg' = "enter")
       => (/\ m'.stage = AskClusterType
           /\ m'.dcs = <<>>
           /\ m'.mrcRecommendation = <<>>
           /\ m'.err = NoError
           /\ m'.numPartitions = 0
           /\ m'.replicationFactor = 0
           /\ m'.minInSyncReplicas = 0
           /\ m'.numBrokers = 0
           /\ m'.numDCs = 0
           /\ m'.inputs = <<>>
           /\ m' = NewModel
           /\ pc' = "idle"
           /\ dcs' = <<>>
           /\ cmd' # CmdQuit)]_vars

\* Enter was pressed on the results of the tui front end: the model is the
\* fresh one and nothing of the placement is left.
C18_Witness ==
    /\ impl = TuiFrontEnd
    /\ m = NewModel
    /\ msg = "enter"
    /\ cmd = CmdBlink
    /\ pc = "idle"
    /\ dcs = <<>>

\* C21 as stated: for every request the call reaches its return, with all
\* partitions processed.
C21_Terminates ==
    <>(pc = "done" /\ (totalBrokers > 0 => p = cfg.NumPartitions))

\* What the code does: every call ends, at its return or in the panic of
\* the advisory's division, and the loops are bounded as the claim says.
C21_EndsByReturnOrPanic == <>(pc \in {"done", "panic"})

C21_ScansBounded ==
    /\ p <= cfg.NumPartitions
    /\ i <= Len(shuffledBrokerIDs) + 1
    /\ pc = "done" => (totalBrokers = 0 \/ p = cfg.NumPartitions)

\* sort.Slice of the renderer, with less(a, b) == a.PartitionID <
\* b.PartitionID: the sort is not stable, so every rearrangement of the list
\* that is ordered by partition ID is a possible result.
SortByPartitionID(replicas) ==
    { [k \in DOMAIN replicas |-> replicas[perm[k]]] :
        perm \in { q \in Perms(DOMAIN replicas) :
                     \A a, b \in DOMAIN replicas :
                         a < b => ~(replicas[q[b]].PartitionID
                                        < replicas[q[a]].PartitionID) } }

\* C22: after the call returns, every broker's replica list is strictly
\* increasing in partition ID, and the renderer's sort leaves every list as
\* it is.
C22_ListsAscending ==
    Returned =>
        \A sl \in BrokerSlots :
            LET replicas == dcs[sl[1]].Brokers[sl[2]].Replicas
            IN /\ \A a, b \in DOMAIN replicas :
                      a < b => replicas[a].PartitionID < replicas[b].PartitionID
               /\ SortByPartitionID(replicas) = {replicas}

\* A returned MultiRegion topology with a broker that holds one replica of
\* each of four partitions, in more than one role.
C22_Witness ==
    /\ Returned
    /\ cfg.ClusterType = MRC
    /\ \E sl \in BrokerSlots :
           LET replicas == dcs[sl[1]].Brokers[sl[2]].Replicas
           IN /\ Len(replicas) = 4
              /\ Cardinality({replicas[k].Role : k \in DOMAIN replicas}) >= 2

\* C23: in MultiRegion mode the leader of partition part (1-based) lies in
\* zone floor(((part-1) mod (B*Z)) / B) + 1, whatever the order in which the
\* brokers of a zone were listed.
C23_LeaderZoneByIndex ==
    (cfg.ClusterType = MRC /\ totalBrokers > 0 /\ pc \notin {"start", "panic"}) =>
        \A part \in 1..cfg.NumPartitions :
            \A t \in WithRole(part, Leader) :
                t[1] = (((part - 1) % (cfg.NumBrokers * cfg.NumDCs))
                            \div cfg.NumBrokers) + 1

\* A returned 2x2 topology whose zones were both listed in descending
\* broker order: partitions 1, 2 are led from zone 1 and 3, 4 from zone 2.
C23_Witness ==
    /\ Returned
    /\ cfg.ClusterType = MRC
    /\ cfg.NumBrokers = 2 /\ cfg.NumDCs = 2 /\ cfg.NumPartitions = 4
    /\ allBrokerIDs = <<1, 0, 3, 2>>
    /\ \A part \in 1..4 : Cardinality(WithRole(part, Leader)) = 1
    /\ {t[1] : t \in WithRole(1, Leader) \cup WithRole(2, Leader)} = {1}
    /\ {t[1] : t \in WithRole(3, Leader) \cup WithRole(4, Leader)} = {2}

\* C24: on every configuration the front end of main.go accepts, the head
\* of main.go's calculatePlacement leaves what placement.CalculatePlacement
\* computes for the same configuration: the same zones and brokers, the
\* same broker total, which is positive, the same advisory, and the same
\* possible global broker orders; it never panics, and the partition loop
\* that follows is the same text in both.  The stored result carries the
\* advisory of the stored configuration in both front ends.
C24_MainEngineAgrees ==
    /\ (impl = MainFrontEnd /\ pc = "partition" /\ p = 0) =>
           LET r == AddDCs(cfg, 0, 0, <<>>)
           IN /\ dcs = r.dcs
              /\ totalBrokers = r.counter
              /\ totalBrokers > 0
              /\ ~DivisionByZero(cfg)
              /\ mrcRecommendation = Recommendation(cfg)
              /\ AllBrokerIDOrdersMain(dcs, cfg.NumDCs)
                     = AllBrokerIDOrders(r.dcs, NumDCsOf(cfg))
              /\ allBrokerIDs \in AllBrokerIDOrders(r.dcs, NumDCsOf(cfg))
    /\ impl = MainFrontEnd => pc # "panic"
    /\ (impl # DirectCall /\ m.stage = ShowPlacement /\ pc = "idle") =>
           m.mrcRecommendation = Recommendation(ConfigOf(m))

\* main.go is about to place the first partition of a Single form with two
\* brokers: one zone, although main.go does not force the zone count.
C24_Witness ==
    /\ impl = MainFrontEnd
    /\ pc = "partition"
    /\ p = 0
    /\ cfg.ClusterType = SingleCluster
    /\ cfg.NumBrokers = 2
    /\ cfg.NumDCs = 1
    /\ DOMAIN dcs = {1}
    /\ totalBrokers = 2

\* The errors only one of the validators can return: the positivity checks
\* after the loop in main.go, the total-brokers check in the tui package.
OneSidedErrors ==
    {<<"min ISR must be positive">>,
     <<"replication Factor must be positive">>,
     <<"number of partitions must be positive">>,
     <<"number of brokers must be positive">>,
     <<"total number of brokers must be positive">>}

\* C25: on every form the two validators return the same error (none for
\* the same forms, and otherwise that of the same check), leave the same
\* stored values, and never return an error of a check only one of them has.
C25_ValidatorsAgree ==
    InForm(m) =>
        LET main == ParseAndValidateInputs(MainFrontEnd, m)
            tui == ParseAndValidateInputs(TuiFrontEnd, m)
        IN /\ main.err = tui.err
           /\ main.m = tui.m
           /\ main.err \notin OneSidedErrors
           /\ tui.err \notin OneSidedErrors

\* A form of positive numbers was submitted and rejected by the logical
\* validation, which is where the two validators differ in text.
C25_Witness ==
    /\ InForm(m)
    /\ msg = "enter"
    /\ ParseError(m) = NoError
    /\ m.err = <<"min ISR cannot exceed Replication Factor">>
    /\ ParseAndValidateInputs(MainFrontEnd, m).err = m.err
    /\ ParseAndValidateInputs(TuiFrontEnd, m).err = m.err

\* The steps that change the stage.
C26_StageMoves ==
    m'.stage # m.stage =>
        \/ /\ m.stage = AskClusterType
           /\ m'.stage = AskSingleConfig
           /\ msg' \in {"s", "S"}
        \/ /\ m.stage = AskClusterType
           /\ m'.stage = AskMRCConfig
           /\ msg' \in {"m", "M"}
        \/ /\ InForm(m)
           /\ m'.stage = ShowPlacement
           /\ msg' = "enter"
           /\ m.focused = Len(m.inputs) - 1
           /\ ~FormInvalid(m)
           /\ m'.clusterType = m.clusterType
        \/ /\ m.stage = ShowPlacement
           /\ m'.stage = AskClusterType
           /\ msg' = "enter"

\* C26: the stage changes only by S or M in the selection (to the Single or
\* MultiRegion form), by Enter on the last field of a valid form (to
\* ShowPlacement) and by Enter in ShowPlacement (to the selection); ShowError
\* is never the stage; and the cluster type is MRC exactly when the form
\* entered from the selection was the MultiRegion one.
C26_StageMachine ==
    /\ [](m.stage # ShowError)
    /\ [](m.stage = AskSingleConfig => m.clusterType = SingleCluster)
    /\ [](m.stage = AskMRCConfig => m.clusterType = MRC)
    /\ [][C26_StageMoves]_vars
    /\ [][m'.stage = m.stage => m'.clusterType = m.clusterType]_vars

\* The results of a MultiRegion form are shown: the machine went from the
\* selection through the form to ShowPlacement.
C26_Witness ==
    /\ impl = MainFrontEnd
    /\ m.stage = ShowPlacement
    /\ m.clusterType = MRC
    /\ msg = "enter"
    /\ pc = "idle"
    /\ m.dcs # <<>>
    /\ m.width = 80

\* C27: for every MultiRegion request, whenever pass 1 or pass 2 is about
\* to assign a role, numFollowers < targetFollowers or numObservers <
\* targetObservers, so the fallback branch is not taken; the counters never
\* exceed their targets, and no partition holds more Followers than
\* targetFollowers or more Observers than targetObservers.
C27_FallbackNeverTaken ==
    (cfg.ClusterType = MRC /\ pc \notin {"start", "panic", "idle"}) =>
        /\ (Pass1Running \/ Pass2Running) =>
               \/ numFollowers < TargetFollowers(cfg)
               \/ numObservers < TargetObservers(cfg)
        /\ numFollowers <= TargetFollowers(cfg)
        /\ numObservers <= TargetObservers(cfg)
        /\ \A part \in 1..cfg.NumPartitions :
               /\ Cardinality(WithRole(part, Follower)) <= TargetFollowers(cfg)
               /\ Cardinality(WithRole(part, Observer)) <= TargetObservers(cfg)

\* The second pass has placed the last replica of a partition and both
\* counters stand exactly at their targets.
C27_Witness ==
    /\ pc = "pass2"
    /\ cfg.ClusterType = MRC
    /\ replicasPlaced = cfg.ReplicationFactor
    /\ i > 1
    /\ TargetFollowers(cfg) >= 1
    /\ TargetObservers(cfg) >= 1
    /\ numFollowers = TargetFollowers(cfg)
    /\ numObservers = TargetObservers(cfg)

====
